---- MODULE Spec2Model ----
(***************************************************************************)
(* Model of hooks/scripts/context-tool-cleaner.py: one CLI run of main()   *)
(* (load, clean, conditional save) over a line-delimited JSON transcript.  *)
(*                                                                         *)
(* Identifiers (uuid, parentUuid, tool ids) are JSON strings or null.      *)
(* They are modelled as integers: None (null / absent key), Empty (the     *)
(* empty string, the one string Python treats as false) and 1, 2, ... for  *)
(* non-empty strings.                                                      *)
(***************************************************************************)
EXTENDS Integers, Sequences, FiniteSets, TLC

\* ----- bounds ------------------------------------------------------------
MaxLines == 3      \* lines of the transcript file
NumTids == 2       \* distinct non-empty tool ids

\* ----- values ------------------------------------------------------------
None == 0
Empty == 0 - 1

Truthy(v) == v # None /\ v # Empty

Tids == 1 .. NumTids

ToolUse(t) == [type |-> "tool_use", id |-> t, tool_use_id |-> None]
ToolResult(t) == [type |-> "tool_result", id |-> None, tool_use_id |-> t]
TextItem == [type |-> "text", id |-> None, tool_use_id |-> None]
BadItem == [type |-> "not_a_mapping", id |-> None, tool_use_id |-> None]

\* data.get('message', {}): "absent" (no key), "mapping" (a JSON object whose
\* 'content' is the list given), "content_not_list" (a JSON object whose
\* 'content' is absent or a scalar), "not_mapping" (null, string, number, list)
MessageField(kind, content) == [kind |-> kind, content |-> content]

Data(uuid, parentUuid, message) ==
    [uuid |-> uuid, parentUuid |-> parentUuid, message |-> message]

\* ----- Message ------------------------------------------------------------
RECURSIVE ToolIdsFrom(_, _)
ToolIdsFrom(content, k) ==
    IF k > Len(content) THEN <<>>
    ELSE IF content[k].type = "tool_use"
         THEN <<content[k].id>> \o ToolIdsFrom(content, k + 1)
         ELSE ToolIdsFrom(content, k + 1)

RECURSIVE ToolUseIdRefFrom(_, _, _)
ToolUseIdRefFrom(content, k, ref) ==
    IF k > Len(content) THEN ref
    ELSE IF content[k].type = "tool_result" /\ Truthy(content[k].tool_use_id)
         THEN ToolUseIdRefFrom(content, k + 1, content[k].tool_use_id)
         ELSE ToolUseIdRefFrom(content, k + 1, ref)

\* self.content = data.get('message', {}).get('content', [])
ContentOf(data) ==
    IF data.message.kind = "mapping" THEN data.message.content ELSE <<>>

\* Message(data) raises AttributeError: 'message' is not a mapping, or an item
\* of the content list is not a mapping
MessageRaises(data) ==
    \/ data.message.kind = "not_mapping"
    \/ /\ data.message.kind = "mapping"
       /\ \E k \in 1 .. Len(data.message.content) :
              data.message.content[k].type = "not_a_mapping"

Message(data) ==
    [data |-> data,
     uuid |-> data.uuid,
     parent_uuid |-> data.parentUuid,
     tool_ids |-> ToolIdsFrom(ContentOf(data), 1),
     tool_use_id_ref |-> ToolUseIdRefFrom(ContentOf(data), 1, None)]

is_tool_use(msg) == Len(msg.tool_ids) > 0
is_tool_result(msg) == Truthy(msg.tool_use_id_ref)

\* ----- Python dict: keys in first-insertion order, last write wins ---------
EmptyDict == [keys |-> <<>>, map |-> <<>>]

DictSet(d, k, v) ==
    [keys |-> IF k \in DOMAIN d.map THEN d.keys ELSE Append(d.keys, k),
     map |-> (k :> v) @@ d.map]

\* ----- clean(): step 1, tool id maps (values are indexes into messages) ----
RECURSIVE SetToolIds(_, _, _, _)
SetToolIds(d, tids, j, idx) ==
    IF j > Len(tids) THEN d
    ELSE SetToolIds(DictSet(d, tids[j], idx), tids, j + 1, idx)

RECURSIVE tool_use_map_from(_, _, _)
tool_use_map_from(msgs, k, d) ==
    IF k > Len(msgs) THEN d
    ELSE tool_use_map_from(msgs, k + 1, SetToolIds(d, msgs[k].tool_ids, 1, k))

RECURSIVE tool_result_map_from(_, _, _)
tool_result_map_from(msgs, k, d) ==
    IF k > Len(msgs) THEN d
    ELSE tool_result_map_from(msgs, k + 1,
             IF Truthy(msgs[k].tool_use_id_ref)
             THEN DictSet(d, msgs[k].tool_use_id_ref, k)
             ELSE d)

tool_use_map(msgs) == tool_use_map_from(msgs, 1, EmptyDict)
tool_result_map(msgs) == tool_result_map_from(msgs, 1, EmptyDict)

\* ----- clean(): step 2, selection ------------------------------------------
\* a slip: the pair is counted when the issuer is newly marked
MarkPairCountsIssuer(acc, use_uuid, result_uuid) ==
    [removed |-> acc.removed \cup {use_uuid, result_uuid},
     pairs |-> IF use_uuid \notin acc.removed THEN acc.pairs + 1 ELSE acc.pairs]

MarkPair(acc, use_uuid, result_uuid) ==
    LET r1 == acc.removed \cup {use_uuid}
    IN IF result_uuid \notin r1
       THEN [removed |-> r1 \cup {result_uuid}, pairs |-> acc.pairs + 1]
       ELSE [removed |-> r1, pairs |-> acc.pairs]

\* a slip: the issuer is marked whether or not the tool id was answered
SelectStepUnpaired(msgs, use, res, tid, acc) ==
    IF tid \in DOMAIN res.map
    THEN MarkPair(acc, msgs[use.map[tid]].uuid, msgs[res.map[tid]].uuid)
    ELSE [removed |-> acc.removed \cup {msgs[use.map[tid]].uuid},
          pairs |-> acc.pairs]

\* one iteration of "for tid, use_msg in tool_use_map.items()"
SelectStep(msgs, use, res, tid, acc) ==
    IF tid \in DOMAIN res.map
    THEN MarkPair(acc, msgs[use.map[tid]].uuid, msgs[res.map[tid]].uuid)
    ELSE acc

RECURSIVE SelectPairs(_, _, _, _, _)
SelectPairs(msgs, use, res, k, acc) ==
    IF k > Len(use.keys) THEN acc
    ELSE SelectPairs(msgs, use, res, k + 1,
                     SelectStep(msgs, use, res, use.keys[k], acc))

Selection(msgs) ==
    SelectPairs(msgs, tool_use_map(msgs), tool_result_map(msgs), 1,
                [removed |-> {}, pairs |-> 0])

\* ----- state ----------------------------------------------------------------
VARIABLES
    pc,                 \* position in main / load / clean / save
    argc,               \* len(sys.argv)
    nlines,             \* lines of the file read so far
    messages,           \* self.messages
    uuid_map,           \* self.uuid_map: uuid -> index into messages
    load_ret,           \* return value of load()
    removed_uuids,
    tool_pairs_removed,
    repaired_links,
    final_messages,     \* indexes into messages, in append order
    i,                  \* position of "for msg in self.messages" (step 3)
    original_parent,
    current_parent,
    walk_visited,       \* history: ids the current while loop stepped from
    stats,
    save_ret,           \* return value of save()
    backup_created,
    file_written,       \* the transcript was opened for writing
    exit_code

vars == <<pc, argc, nlines, messages, uuid_map, load_ret, removed_uuids,
          tool_pairs_removed, repaired_links, final_messages, i,
          original_parent, current_parent, walk_visited, stats, save_ret,
          backup_created, file_written, exit_code>>

loadVars == <<nlines, messages, uuid_map>>
cleanVars == <<removed_uuids, tool_pairs_removed, repaired_links,
               final_messages, i, original_parent, current_parent,
               walk_visited, stats>>
saveVars == <<save_ret, backup_created, file_written>>

NoStats == [original_count |-> 0, final_count |-> 0, removed_messages |-> 0,
            removed_pairs |-> 0, repaired_links |-> 0]

Running == 0 - 1

Init ==
    /\ pc = "main"
    /\ argc \in {1, 2}
    /\ nlines = 0
    /\ messages = <<>>
    /\ uuid_map = <<>>
    /\ load_ret = "unset"
    /\ removed_uuids = {}
    /\ tool_pairs_removed = 0
    /\ repaired_links = 0
    /\ final_messages = <<>>
    /\ i = 0
    /\ original_parent = None
    /\ current_parent = None
    /\ walk_visited = {}
    /\ stats = NoStats
    /\ save_ret = "unset"
    /\ backup_created = FALSE
    /\ file_written = FALSE
    /\ exit_code = Running

\* ----- main() -----------------------------------------------------------------
Exit(code) ==
    /\ pc' = "exit"
    /\ exit_code' = code

MainUsage ==
    /\ pc = "main"
    /\ argc < 2
    /\ Exit(1)
    /\ UNCHANGED <<argc, loadVars, load_ret, cleanVars, saveVars>>

\* ----- load() -----------------------------------------------------------------
\* os.path.exists is false
LoadNotFound ==
    /\ pc = "main"
    /\ argc >= 2
    /\ pc' = "loaded"
    /\ load_ret' = "False"
    /\ UNCHANGED <<argc, loadVars, cleanVars, saveVars, exit_code>>

\* open() raises: the outer handler returns False
LoadOpenFails ==
    /\ pc = "main"
    /\ argc >= 2
    /\ pc' = "loaded"
    /\ load_ret' = "False"
    /\ UNCHANGED <<argc, loadVars, cleanVars, saveVars, exit_code>>

LoadOpen ==
    /\ pc = "main"
    /\ argc >= 2
    /\ pc' = "load"
    /\ UNCHANGED <<argc, loadVars, load_ret, cleanVars, saveVars, exit_code>>

\* a blank line, or a line json.loads rejects
LoadSkip ==
    /\ pc = "load"
    /\ nlines < MaxLines
    /\ \E kind \in {"blank", "invalid_json"} :
           nlines' = nlines + 1
    /\ UNCHANGED <<pc, argc, messages, uuid_map, load_ret, cleanVars,
                   saveVars, exit_code>>

\* a JSON value that is not an object: data.get raises AttributeError, which
\* only the outer handler catches
LoadNonObject ==
    /\ pc = "load"
    /\ nlines < MaxLines
    /\ nlines' = nlines + 1
    /\ pc' = "loaded"
    /\ load_ret' = "False"
    /\ UNCHANGED <<argc, messages, uuid_map, cleanVars, saveVars, exit_code>>

LoadObject(data) ==
    /\ pc = "load"
    /\ nlines < MaxLines
    /\ nlines' = nlines + 1
    /\ IF MessageRaises(data)
       THEN /\ pc' = "loaded"
            /\ load_ret' = "False"
            /\ UNCHANGED <<messages, uuid_map>>
       ELSE /\ messages' = Append(messages, Message(data))
            /\ uuid_map' = IF Truthy(data.uuid)
                           THEN (data.uuid :> (Len(messages) + 1)) @@ uuid_map
                           ELSE uuid_map
            /\ UNCHANGED <<pc, load_ret>>
    /\ UNCHANGED <<argc, cleanVars, saveVars, exit_code>>

LoadEOF ==
    /\ pc = "load"
    /\ pc' = "loaded"
    /\ load_ret' = "True"
    /\ UNCHANGED <<argc, loadVars, cleanVars, saveVars, exit_code>>

MainLoadFailed ==
    /\ pc = "loaded"
    /\ load_ret = "False"
    /\ Exit(1)
    /\ UNCHANGED <<argc, loadVars, load_ret, cleanVars, saveVars>>

\* ----- clean() ----------------------------------------------------------------
\* steps 1 and 2: the tool id maps and the removal marks
CleanSelect ==
    /\ pc = "loaded"
    /\ load_ret = "True"
    /\ LET sel == Selection(messages)
       IN /\ removed_uuids' = sel.removed
          /\ tool_pairs_removed' = sel.pairs
    /\ repaired_links' = 0
    /\ final_messages' = <<>>
    /\ i' = 1
    /\ pc' = "repair"
    /\ UNCHANGED <<argc, loadVars, load_ret, original_parent, current_parent,
                   walk_visited, stats, saveVars, exit_code>>

\* step 3: a record marked for removal is skipped
RepairSkip ==
    /\ pc = "repair"
    /\ i <= Len(messages)
    /\ messages[i].uuid \in removed_uuids
    /\ i' = i + 1
    /\ UNCHANGED <<pc, argc, loadVars, load_ret, removed_uuids,
                   tool_pairs_removed, repaired_links, final_messages,
                   original_parent, current_parent, walk_visited, stats,
                   saveVars, exit_code>>

\* a slip: the repair is counted but the record keeps its old parent
RepairAppendNoWrite(original, current) ==
    /\ IF current # original
       THEN /\ UNCHANGED messages
            /\ repaired_links' = repaired_links + 1
       ELSE UNCHANGED <<messages, repaired_links>>
    /\ final_messages' = Append(final_messages, i)
    /\ i' = i + 1
    /\ pc' = "repair"
    /\ UNCHANGED <<argc, nlines, uuid_map, load_ret, removed_uuids,
                   tool_pairs_removed, stats, saveVars, exit_code>>

\* lines 137-142: rewrite the parent when it changed, append the survivor
RepairAppend(original, current) ==
    /\ IF current # original
       THEN /\ messages' = [messages EXCEPT ![i].data.parentUuid = current]
            /\ repaired_links' = repaired_links + 1
       ELSE UNCHANGED <<messages, repaired_links>>
    /\ final_messages' = Append(final_messages, i)
    /\ i' = i + 1
    /\ pc' = "repair"
    /\ UNCHANGED <<argc, nlines, uuid_map, load_ret, removed_uuids,
                   tool_pairs_removed, stats, saveVars, exit_code>>

\* a survivor whose parent is not marked: the while loop is not entered
RepairKeep ==
    /\ pc = "repair"
    /\ i <= Len(messages)
    /\ messages[i].uuid \notin removed_uuids
    /\ messages[i].parent_uuid \notin removed_uuids
    /\ original_parent' = messages[i].parent_uuid
    /\ current_parent' = messages[i].parent_uuid
    /\ walk_visited' = {}
    /\ RepairAppend(messages[i].parent_uuid, messages[i].parent_uuid)

\* a survivor whose parent is marked: the while loop is entered
RepairBegin ==
    /\ pc = "repair"
    /\ i <= Len(messages)
    /\ messages[i].uuid \notin removed_uuids
    /\ messages[i].parent_uuid \in removed_uuids
    /\ original_parent' = messages[i].parent_uuid
    /\ current_parent' = messages[i].parent_uuid
    /\ walk_visited' = {}
    /\ pc' = "walk"
    /\ UNCHANGED <<argc, loadVars, load_ret, removed_uuids,
                   tool_pairs_removed, repaired_links, final_messages, i,
                   stats, saveVars, exit_code>>

\* a slip: the walk reads the id of the record found, not its parent
WalkParentSame(msgs, map, current) == msgs[map[current]].uuid

\* a slip: the walk gives up the lineage after one removed record
WalkParentNone(msgs, map, current) == None

\* the parent of the record uuid_map holds for current_parent
WalkParent(msgs, map, current) == msgs[map[current]].parent_uuid

\* one iteration of the while loop that finds a record for current_parent
WalkStep ==
    /\ pc = "walk"
    /\ current_parent \in removed_uuids
    /\ current_parent \in DOMAIN uuid_map
    /\ current_parent' = WalkParent(messages, uuid_map, current_parent)
    /\ walk_visited' = walk_visited \cup {current_parent}
    /\ UNCHANGED <<pc, argc, loadVars, load_ret, removed_uuids,
                   tool_pairs_removed, repaired_links, final_messages, i,
                   original_parent, stats, saveVars, exit_code>>

\* the while loop breaks: current_parent is marked but uuid_map has no record
WalkBreak ==
    /\ pc = "walk"
    /\ current_parent \in removed_uuids
    /\ current_parent \notin DOMAIN uuid_map
    /\ RepairAppend(original_parent, current_parent)
    /\ UNCHANGED <<original_parent, current_parent, walk_visited>>

\* the while condition is false
WalkExit ==
    /\ pc = "walk"
    /\ current_parent \notin removed_uuids
    /\ RepairAppend(original_parent, current_parent)
    /\ UNCHANGED <<original_parent, current_parent, walk_visited>>

CleanReturn ==
    /\ pc = "repair"
    /\ i > Len(messages)
    /\ stats' = [original_count |-> Len(messages),
                 final_count |-> Len(final_messages),
                 removed_messages |-> Cardinality(removed_uuids),
                 removed_pairs |-> tool_pairs_removed,
                 repaired_links |-> repaired_links]
    /\ pc' = "cleaned"
    /\ UNCHANGED <<argc, loadVars, load_ret, removed_uuids,
                   tool_pairs_removed, repaired_links, final_messages, i,
                   original_parent, current_parent, walk_visited, saveVars,
                   exit_code>>

\* ----- save() and the end of main() -------------------------------------------
\* a slip: the transcript is saved whenever clean() returned
ShouldSaveAlways(st) == st.removed_messages >= 0

\* if stats['removed_messages'] > 0
ShouldSave(st) == st.removed_messages > 0

MainNothingToClean ==
    /\ pc = "cleaned"
    /\ ~ShouldSave(stats)
    /\ Exit(0)
    /\ UNCHANGED <<argc, loadVars, load_ret, cleanVars, saveVars>>

\* shutil.copy2 raises: save() returns False and main exits with 1
SaveBackupFails ==
    /\ pc = "cleaned"
    /\ ShouldSave(stats)
    /\ save_ret' = "False"
    /\ Exit(1)
    /\ UNCHANGED <<argc, loadVars, load_ret, cleanVars, backup_created,
                   file_written>>

\* open(..., 'w') raises, or a write raises once the file is open
SaveWriteFails ==
    /\ pc = "cleaned"
    /\ ShouldSave(stats)
    /\ backup_created' = TRUE
    /\ file_written' \in BOOLEAN
    /\ save_ret' = "False"
    /\ Exit(1)
    /\ UNCHANGED <<argc, loadVars, load_ret, cleanVars>>

SaveOk ==
    /\ pc = "cleaned"
    /\ ShouldSave(stats)
    /\ backup_created' = TRUE
    /\ file_written' = TRUE
    /\ save_ret' = "True"
    /\ Exit(0)
    /\ UNCHANGED <<argc, loadVars, load_ret, cleanVars>>

\* the lines save() writes, as the next run's load() reads them back
Reread(msgs, idxs) == [k \in 1 .. Len(idxs) |-> Message(msgs[idxs[k]].data)]

\* ----- the transcripts read ---------------------------------------------------
\* the content lists of the records read: no tool item, one tool_use, one
\* tool_result, two tool_use items, or a tool_use with its own tool_result
PairContents ==
    {<<>>}
    \cup {<<ToolUse(t)>> : t \in Tids}
    \cup {<<ToolResult(t)>> : t \in Tids}
    \cup {<<ToolUse(t), ToolUse(t + 1)>> : t \in 1 .. NumTids - 1}
    \cup {<<ToolUse(t), ToolResult(t)>> : t \in Tids}

\* transcripts that vary who issues and who answers which tool id; every
\* record hangs off the record before it; line n carries the uuid n, or no
\* uuid when it has no tool item or issues one tool id
PairData(n, msgs) ==
    LET parent == IF Len(msgs) = 0 THEN None ELSE msgs[Len(msgs)].uuid
    IN {Data(n, parent, MessageField("mapping", c)) : c \in PairContents}
       \cup {Data(None, parent, MessageField("mapping", c)) :
                c \in {<<>>} \cup {<<ToolUse(t)>> : t \in Tids}}

\* objects Message() does not take, and objects without a content list
OddData(n) ==
    {Data(n, None, MessageField("not_mapping", <<>>)),
     Data(n, None, MessageField("mapping", <<BadItem>>)),
     Data(n, None, MessageField("content_not_list", <<>>)),
     Data(n, None, MessageField("absent", <<>>)),
     Data(n, None, MessageField("mapping", <<TextItem>>))}

LoadPairLine ==
    \E data \in PairData(nlines + 1, messages) : LoadObject(data)

LoadOddLine ==
    \E data \in OddData(nlines + 1) : LoadObject(data)

\* the steps of a run over well-formed lines
CoreSteps ==
    \/ MainUsage
    \/ LoadNotFound
    \/ LoadOpenFails
    \/ LoadOpen
    \/ LoadEOF
    \/ MainLoadFailed
    \/ CleanSelect
    \/ RepairSkip
    \/ RepairKeep
    \/ RepairBegin
    \/ WalkStep
    \/ WalkBreak
    \/ WalkExit
    \/ CleanReturn
    \/ MainNothingToClean
    \/ SaveBackupFails
    \/ SaveWriteFails
    \/ SaveOk

MainSteps ==
    \/ CoreSteps
    \/ LoadSkip
    \/ LoadNonObject
    \/ LoadOddLine

Next ==
    \/ LoadPairLine
    \/ MainSteps

Spec == Init /\ [][Next]_vars

\* transcripts of well-formed lines that vary the parent links: the parent of
\* line n is none, the uuid of an earlier record, or the uuid of the line after
\* it; line n carries the uuid n, or it is a root that issues the tool id under
\* the empty string as uuid; one tool id is issued and answered, by two records
\* or by one
ChainContents ==
    {<<>>, <<ToolUse(1)>>, <<ToolResult(1)>>, <<ToolUse(1), ToolResult(1)>>}

ChainParents(n, msgs) ==
    {None, n + 1} \cup {msgs[k].uuid : k \in 1 .. Len(msgs)}

ChainData(n, msgs) ==
    {Data(n, p, MessageField("mapping", c)) :
        p \in ChainParents(n, msgs), c \in ChainContents}
    \cup {Data(Empty, None, MessageField("mapping", <<ToolUse(1)>>))}

LoadChainLine ==
    \E data \in ChainData(nlines + 1, messages) : LoadObject(data)

NextChain ==
    \/ LoadChainLine
    \/ CoreSteps

SpecChain == Init /\ [][NextChain]_vars

\* the chain transcripts in which no record both issues and answers
WalkData(n, msgs) ==
    {d \in ChainData(n, msgs) : ~(is_tool_use(Message(d)) /\ is_tool_result(Message(d)))}

LoadWalkLine ==
    \E data \in WalkData(nlines + 1, messages) : LoadObject(data)

NextWalk ==
    \/ LoadWalkLine
    \/ CoreSteps

\* step 3 of clean()
RepairSteps ==
    \/ RepairSkip
    \/ RepairKeep
    \/ RepairBegin
    \/ WalkStep
    \/ WalkBreak
    \/ WalkExit
    \/ CleanReturn

\* clean() is synchronous, single-threaded code: while it has a next step it
\* takes it
FairWalk == Init /\ [][NextWalk]_vars /\ WF_vars(RepairSteps)

\* ----- vocabulary of the properties ---------------------------------------------
Indexes == 1 .. Len(messages)

Survivors == {final_messages[k] : k \in 1 .. Len(final_messages)}

Issues(msg, t) == \E j \in 1 .. Len(msg.tool_ids) : msg.tool_ids[j] = t

Answers(msg, t) == msg.tool_use_id_ref = t

Issued(t) == \E m \in Indexes : Issues(messages[m], t)

Answered(t) == \E m \in Indexes : Answers(messages[m], t)

\* the record issues an answered tool id or answers an issued one
Matched(msg) ==
    \E t \in Tids : \/ Issues(msg, t) /\ Answered(t)
                    \/ Answers(msg, t) /\ Issued(t)

\* the record issues an unanswered tool id or answers an unissued one
Unmatched(msg) ==
    \E t \in Tids : \/ Issues(msg, t) /\ ~Answered(t)
                    \/ Answers(msg, t) /\ ~Issued(t)

\* no two records carry the same uuid; records without a uuid are exempt
UniqueIds ==
    \A j, k \in Indexes :
        j # k /\ messages[j].uuid = messages[k].uuid =>
            messages[j].uuid = None

\* no two records carry the same uuid value, a missing uuid counting as one
DistinctIds ==
    \A j, k \in Indexes : j # k => messages[j].uuid # messages[k].uuid

\* the ids one parent link away from the ids of S
ParentsOf(S) ==
    {messages[m].parent_uuid : m \in {k \in Indexes : messages[k].uuid \in S}}
        \ {None}

RECURSIVE AncestorsFrom(_, _)
AncestorsFrom(frontier, seen) ==
    IF frontier \subseteq seen THEN seen
    ELSE AncestorsFrom(ParentsOf(frontier), seen \cup frontier)

Ancestors(u) == AncestorsFrom(ParentsOf({u}), {})

\* the parent relation of the input has no cycle
AcyclicParents ==
    \A m \in Indexes :
        messages[m].uuid # None => messages[m].uuid \notin Ancestors(messages[m].uuid)

Owner(u) == CHOOSE m \in Indexes : messages[m].uuid = u

\* the first id on the parent chain from p that is not marked, records looked
\* up by uuid in the whole input; none at a root
RECURSIVE FirstUnmarked(_)
FirstUnmarked(p) ==
    IF p = None THEN None
    ELSE IF p \notin removed_uuids THEN p
    ELSE FirstUnmarked(messages[Owner(p)].parent_uuid)

\* as FirstUnmarked, but a marked empty-string id ends the chain
RECURSIVE FirstResolved(_)
FirstResolved(p) ==
    IF p = None THEN None
    ELSE IF p \notin removed_uuids THEN p
    ELSE IF ~Truthy(p) THEN p
    ELSE FirstResolved(messages[Owner(p)].parent_uuid)

Rewritten == {s \in Survivors : messages[s].data.parentUuid # messages[s].parent_uuid}

\* ----- C1 ----------------------------------------------------------------------
\* C1 (P1, pairing completeness): after clean(), for every tool id that some
\* record issues and some record answers, no record that issues it and no
\* record that answers it is a survivor.
C1_PairingComplete ==
    pc = "cleaned" =>
        \A t \in Tids :
            Issued(t) /\ Answered(t) =>
                \A m \in Indexes :
                    Issues(messages[m], t) \/ Answers(messages[m], t) =>
                        m \notin Survivors

C3_NoDanglingParent ==
    pc = "cleaned" /\ UniqueIds /\ AcyclicParents =>
        \A s \in Survivors :
            LET p == messages[s].data.parentUuid
            IN \/ p = None
               \/ \E r \in Survivors : messages[r].uuid = p
               \/ p \in removed_uuids /\ p \notin DOMAIN uuid_map

\* C3 as amended: the parent written for a survivor is none, the id of a
\* survivor, a marked id that uuid_map does not hold, or an id that no record
\* of the input carries.
C3_ParentResolves ==
    pc = "cleaned" /\ UniqueIds /\ AcyclicParents =>
        \A s \in Survivors :
            LET p == messages[s].data.parentUuid
            IN \/ p = None
               \/ \E r \in Survivors : messages[r].uuid = p
               \/ p \in removed_uuids /\ p \notin DOMAIN uuid_map
               \/ \A m \in Indexes : messages[m].uuid # p

\* a survivor was moved from a marked parent onto a surviving ancestor
C3_Witness ==
    /\ pc = "cleaned"
    /\ UniqueIds
    /\ AcyclicParents
    /\ \E s \in Rewritten :
           \E r \in Survivors : messages[r].uuid = messages[s].data.parentUuid

\* ----- C4 ----------------------------------------------------------------------
\* C4 (P5, idempotence): a second clean() over the records read back from the
\* first run's output marks no record and counts no pair (and so repairs no
\* link).
C4_SecondRunIdle ==
    pc = "cleaned" =>
        LET again == Selection(Reread(messages, final_messages))
        IN again.removed = {} /\ again.pairs = 0

\* ----- C5 ----------------------------------------------------------------------
\* C5: a record without a uuid is never marked and is always a survivor with
\* its parent unchanged.
C5_MissingIdInert ==
    pc = "cleaned" =>
        /\ None \notin removed_uuids
        /\ \A m \in Indexes :
               messages[m].uuid = None =>
                   /\ m \in Survivors
                   /\ messages[m].data.parentUuid = messages[m].parent_uuid

\* ----- C6 ----------------------------------------------------------------------
\* C6: once the file is open, load() returns True whatever the lines hold.
C6_LoadSucceeds ==
    load_ret = "False" => nlines = 0

\* ----- C7 ----------------------------------------------------------------------
\* C7: while no record is marked the run makes no backup and does not write
\* the transcript, and such a run that loaded ends with exit code 0; a run
\* ends with exit code 1 exactly when the argument is missing, load() failed
\* or save() failed, and with 0 otherwise.
C7_ExitCodes ==
    /\ removed_uuids = {} => ~backup_created /\ ~file_written
    /\ pc = "exit" /\ load_ret = "True" /\ removed_uuids = {} => exit_code = 0
    /\ pc = "exit" =>
           /\ exit_code \in {0, 1}
           /\ exit_code = 1 <=>
                  argc < 2 \/ load_ret = "False" \/ save_ret = "False"

\* a run over a transcript with an unanswered request ended: nothing to clean
C7_Witness ==
    /\ pc = "exit"
    /\ load_ret = "True"
    /\ removed_uuids = {}
    /\ \E m \in Indexes : is_tool_use(messages[m])

\* ----- C8 ----------------------------------------------------------------------
\* C8 as claimed: removed_messages is at most twice removed_pairs.
C8_AtMostTwicePairs ==
    pc = "cleaned" => stats.removed_messages <= 2 * stats.removed_pairs

\* C8 as amended: when no two records carry the same uuid value (a missing
\* uuid counting as one) and no record both issues and answers,
\* removed_messages is at most twice removed_pairs.
C8_AtMostTwicePairsDistinct ==
    pc = "cleaned" /\ DistinctIds
        /\ (\A m \in Indexes :
                ~(is_tool_use(messages[m]) /\ is_tool_result(messages[m]))) =>
        stats.removed_messages <= 2 * stats.removed_pairs

\* one record issued two tool ids and two records answered them: three
\* records removed for two pairs
C8_Witness ==
    /\ pc = "cleaned"
    /\ DistinctIds
    /\ \A m \in Indexes :
           ~(is_tool_use(messages[m]) /\ is_tool_result(messages[m]))
    /\ stats.removed_pairs = 2
    /\ stats.removed_messages = 3

\* ----- C9 ----------------------------------------------------------------------
\* C9 as claimed: with unique ids and acyclic parents, the parent written for
\* a survivor is the first unmarked id on its original parent chain (none when
\* the chain is marked up to a root), and repaired_links counts the survivors
\* whose parent changed.
C9_NearestSurvivingAncestor ==
    pc = "cleaned" /\ UniqueIds /\ AcyclicParents =>
        /\ \A s \in Survivors :
               messages[s].data.parentUuid = FirstUnmarked(messages[s].parent_uuid)
        /\ stats.repaired_links = Cardinality(Rewritten)

\* C9 as amended: the parent written for a survivor is the first id on its
\* original parent chain that is unmarked or is a marked empty-string id
\* (which uuid_map never holds), none when the chain is marked up to a root;
\* repaired_links counts the survivors whose parent changed.
C9_NearestResolvedAncestor ==
    pc = "cleaned" /\ UniqueIds /\ AcyclicParents =>
        /\ \A s \in Survivors :
               messages[s].data.parentUuid = FirstResolved(messages[s].parent_uuid)
        /\ stats.repaired_links = Cardinality(Rewritten)

\* a survivor behind two marked records was moved past both
C9_Witness ==
    /\ pc = "cleaned"
    /\ UniqueIds
    /\ AcyclicParents
    /\ stats.repaired_links = 1
    /\ \E s \in Rewritten :
           /\ messages[s].parent_uuid \in removed_uuids
           /\ Truthy(messages[s].parent_uuid)
           /\ messages[Owner(messages[s].parent_uuid)].parent_uuid \in removed_uuids

\* ----- C10 ---------------------------------------------------------------------
\* C10: on a transcript with acyclic parents every ancestor walk steps from
\* each marked id at most once, and clean() returns its survivors and
\* statistics.
C10_CleanTerminates ==
    /\ [](pc = "walk" /\ AcyclicParents => current_parent \notin walk_visited)
    /\ (pc = "repair" /\ AcyclicParents) ~> (pc = "cleaned")

\* a walk over two marked records is about to end at an unmarked id
C10_Witness ==
    /\ pc = "walk"
    /\ AcyclicParents
    /\ Cardinality(walk_visited) = 2
    /\ current_parent \notin removed_uuids

====
